---- MODULE Spec2Model ----
(***************************************************************************)
(* The multisig context provider (MultisigContextProvider) of the multisig *)
(* app: the component state (the snapshot), the persisted contract address *)
(* and the asynchronous handlers that update them.  Every handler is an    *)
(* async function: it runs synchronously up to its first await, and each   *)
(* resumption after an await is one step.  Handlers started by the user    *)
(* interleave at their awaits.                                             *)
(***************************************************************************)
EXTENDS Integers, Sequences, FiniteSets, TLC

\* ------------------------------------------------------------------ bounds
\* Number of handlers the user starts beside the loadInformation of the mount.
MaxTasks == 1
\* The same, where two handlers of the user have to overlap.
MaxOverlap == 2
\* Largest minimum-votes value the user enters.
MaxVotesInput == 3

\* ------------------------------------------------------------------ values
\* JavaScript undefined, for string-valued fields.
undefined == "undefined"
\* undefined, for fields that hold fetched data.
NoData == [addr |-> "undefined"]
\* undefined, for the three messages.
NoMessage == <<>>

\* validateAddress() of @taquito/utils returns ValidationResult.VALID = 3.
VALID == 3

\* The multisig contracts deployed on the chain, and the implicit accounts.
Contracts == {"KT1A", "KT1B"}
Accounts == {"tz1a", "tz1b", "tz1c"}
DEFAULT_CONTRACT_ADDRESS == "KT1A"
\* The account the user's wallet holds.
WalletUser == "tz1a"

\* storage.users of each deployed contract.
ChainUsers(a) == IF a = "KT1A" THEN <<"tz1a", "tz1b">> ELSE <<"tz1a">>
\* The mutez balance of each deployed contract.
ChainBalance(a) == IF a = "KT1A" THEN 3 ELSE 1

\* validateAddress(a): VALID for every well-formed address, contract or account.
validateAddress(a) == IF a \in Contracts \cup Accounts THEN VALID ELSE 0

\* The test with the validateAddress call forgotten: any non-empty string passes.
IsProperAddress_truthyOnly(a) == a # "" /\ a # undefined

\* The test (x && validateAddress(x) === 3) of the handlers; "" and undefined are falsy.
IsProperAddress(a) == a # "" /\ a # undefined /\ validateAddress(a) = VALID

\* utils.getContractStorage(a), fetched by handler t: the storage of a deployed
\* contract, undefined for an address that holds no contract.
getContractStorage(a, t) == IF a \in Contracts THEN [addr |-> a, by |-> t] ELSE NoData
\* utils.getBalance(a), fetched by handler t.
getBalance(a, t) == [addr |-> a, by |-> t]
\* utils.getUserAliases(storage.users), fetched by handler t.
getUserAliases(st, t) == [addr |-> st.addr, by |-> t]
\* utils.getBigmapKeys(storage.proposals), fetched by handler t.
getBigmapKeys(st, t) == [addr |-> st.addr, by |-> t]
\* utils.getUserVotes(userAddress, storage.votes), fetched by handler t.
getUserVotes(u, st, t) == IF u = undefined THEN NoData ELSE [user |-> u, addr |-> st.addr, by |-> t]

\* storage?.users of a snapshot storage: undefined when the storage is.
Users(st) == IF st = NoData THEN <<>> ELSE ChainUsers(st.addr)
\* storage?.users.length; -1 stands for undefined.
UsersLength(st) == IF st = NoData THEN -1 ELSE Len(ChainUsers(st.addr))
\* A membership test that looks at the first user only.
UsersIncludes_firstOnly(st, a) == st # NoData /\ ChainUsers(st.addr)[1] = a

\* storage?.users.includes(a); undefined (falsy) when the storage is undefined.
UsersIncludes(st, a) == st # NoData /\ \E i \in 1..Len(ChainUsers(st.addr)) : ChainUsers(st.addr)[i] = a
\* x > y of JavaScript with y possibly undefined (-1): false against undefined.
JsGreater(x, y) == y # -1 /\ x > y
\* The amount of a snapshot balance; -1 stands for undefined.
Amount(bal) == IF bal = NoData THEN -1 ELSE ChainBalance(bal.addr)

\* ------------------------------------------------------------------ messages
MsgWaiting == <<"Waiting for the operation to be confirmed...">>
MsgUploadingJson == <<"Uploading the json metadata to ipfs...">>
MsgUploadingFile == <<"Uploading the file to ipfs...">>
ErrContractAddress(a) == <<"The provided address is not a valid contract address", a>>
ErrAddress(a) == <<"The provided address is not a valid tezos address", a>>
ErrTokenAddress(a) == <<"The provided token contract address is not a valid tezos address", a>>
ErrBalance == <<"The total amount of tez to transfer is larger than the current contract balance">>
ErrMinimumVotes == <<"The minimum votes need to be higher than 0 and less or equal to the number of multisig users">>
ErrExpirationTime == <<"The expiration time needs to be at least one day">>
ErrAlreadyUser == <<"The provided address is already a multisig user">>
ErrNotUser == <<"The provided address is not a multisig user">>
ErrLambda == <<"The provided lambda function Michelson code is not correct">>
ErrTextNotUploaded == <<"The text proposal needs to be uploaded first to IPFS">>
ErrNoFile == <<"A file needs to be loaded before uploading to IPFS">>
\* The message originate hands to this.setErrorMessage, which does not exist.
ErrUserAddress(a) == <<"The provided user address is not a valid tezos address", a>>

\* ------------------------------------------------------------------ inputs
ContractInputs == {"KT1A", "KT1B", "tz1a", "bad", ""}
UserInputs == {"tz1b", "tz1c", "bad", ""}
VotesInputs == 0..MaxVotesInput
ExpirationInputs == {0, 1}
Transfer(d, n) == [destination |-> d, amount |-> n]
MutezTransferInputs ==
    { <<>>,
      <<Transfer("tz1c", 1)>>,
      <<Transfer("tz1c", 1), Transfer("tz1b", 1)>>,
      <<Transfer("tz1c", 4)>>,
      <<Transfer("tz1c", 1), Transfer("bad", 9)>>,
      <<Transfer("", 1)>> }
TokenAddressInputs == {"KT1B", "bad", ""}
TokenTransferInputs == { <<Transfer("tz1c", 1)>>, <<Transfer("tz1c", 1), Transfer("bad", 1)>> }
IpfsPathInputs == {undefined, "QmText"}
MichelineInputs == {"{ DROP ; NIL operation }", "{ DROP"}
FileInputs == {undefined, "file"}
OriginateUsersInputs == { <<"tz1a", "tz1b">>, <<"tz1a", "bad">>, <<>> }

\* new MichelsonMap(): a map without entries.
MichelsonMap == <<>>
\* originated_contracts[0].address of a confirmed origination.
NewContract == "KT1N"
\* An origination storage whose counter starts at 1.
OriginationStorage_counterOne(parameters) ==
    [counter |-> 1, expiration_time |-> parameters.expirationTime,
     metadata |-> "metadataBigmap", minimum_votes |-> parameters.minimumVotes, proposals |-> MichelsonMap,
     users |-> parameters.users, votes |-> MichelsonMap]
\* The storage originate builds from its parameters after the metadata upload.
OriginationStorage(parameters) ==
    [counter |-> 0, expiration_time |-> parameters.expirationTime,
     metadata |-> "metadataBigmap", minimum_votes |-> parameters.minimumVotes, proposals |-> MichelsonMap,
     users |-> parameters.users, votes |-> MichelsonMap]

\* parser.parseMichelineExpression(code) throws on a malformed expression.
ParseThrows(code) == code = "{ DROP"

\* ------------------------------------------------------------------ state
VARIABLES
    userAddress,          \* this.state.userAddress
    contractAddresses,    \* this.state.contractAddresses (the address they are similar to)
    contractAddress,      \* this.state.contractAddress
    storage,              \* this.state.storage
    balance,              \* this.state.balance
    userAliases,          \* this.state.userAliases
    proposals,            \* this.state.proposals
    userVotes,            \* this.state.userVotes
    contract,             \* this.state.contract (the address the handle points to)
    informationMessage,   \* this.state.informationMessage
    confirmationMessage,  \* this.state.confirmationMessage
    errorMessage,         \* this.state.errorMessage
    localStorage,         \* window.localStorage.multisigContractAddress
    walletAccount,        \* the active account of the beacon wallet
    tasks                 \* the handlers in flight: tasks[0] is loadInformation

snapshot == <<userAddress, contractAddresses, contractAddress, storage, balance,
              userAliases, proposals, userVotes, contract>>
messages == <<informationMessage, confirmationMessage, errorMessage>>
vars == <<userAddress, contractAddresses, contractAddress, storage, balance,
          userAliases, proposals, userVotes, contract,
          informationMessage, confirmationMessage, errorMessage,
          localStorage, walletAccount, tasks>>

\* The handlers the user starts; handler 0 is the loadInformation of the mount.
UserTasks == DOMAIN tasks \ {0}

\* A handler that was not started.
\*   op       the handler's name
\*   pc       the await it is suspended at ("idle": not started, "done": settled)
\*   a, b, c  addresses captured when a collaborator call was issued
\*   u        the user address a handler fetched or captured
\*   h        the contract handle the operation is sent with
\*   display  the displayUploadInformation argument of an upload
\*   granted  how wallet.requestPermissions settled: none, granted, rejected
\*   origination  the parameters of an originate, then the storage it originates with
\*   sent     what became of the operation: none, sendFailed, sent, confirmFailed, confirmed
\*   calls    collaborator calls issued so far
\*   result   how the handler settled: ok, noop, invalid, threw, nocontract
\*   returned whether the promise the caller holds has settled
IdleTask == [op |-> "none", pc |-> "idle", a |-> undefined, b |-> undefined,
             c |-> undefined, u |-> undefined, h |-> undefined, sent |-> "none", calls |-> 0,
             result |-> "none", returned |-> FALSE, display |-> FALSE, granted |-> "none",
             origination |-> NoData]

\* The handler settles: nothing of it stays in flight and its locals are dropped.
Settle(task, res) ==
    [IdleTask EXCEPT !.op = task.op, !.pc = "done", !.sent = task.sent, !.calls = task.calls,
                     !.result = res, !.returned = TRUE, !.granted = task.granted]

\* componentDidMount has called loadInformation, which awaits utils.getUserAddress(wallet);
\* the user will start n handlers.
Mounted(n) ==
    /\ userAddress = undefined
    /\ contractAddresses = undefined
    /\ localStorage \in {undefined, "KT1B"}
    /\ contractAddress = (IF localStorage # undefined THEN localStorage ELSE DEFAULT_CONTRACT_ADDRESS)
    /\ storage = NoData
    /\ balance = NoData
    /\ userAliases = NoData
    /\ proposals = NoData
    /\ userVotes = NoData
    /\ contract = undefined
    /\ informationMessage = NoMessage
    /\ confirmationMessage = NoMessage
    /\ errorMessage = NoMessage
    /\ walletAccount \in {undefined, WalletUser}
    /\ tasks = [t \in 0..n |->
                  IF t = 0 THEN [IdleTask EXCEPT !.op = "loadInformation",
                                                 !.pc = "getUserAddress", !.calls = 1]
                  ELSE IdleTask]

Init == Mounted(MaxTasks)
InitOverlap == Mounted(MaxOverlap)

\* The user may start a handler in slot t: slots are used in order.
CanStart(t) == tasks[t].pc = "idle" /\ tasks[t - 1].pc # "idle"

\* ------------------------------------------------------------------ messages
\* render: the user dismisses the confirmation or the error message.
DismissMessage ==
    /\ \E which \in {"confirmation", "error"} :
         /\ IF which = "error" THEN errorMessage # NoMessage ELSE confirmationMessage # NoMessage
         /\ errorMessage' = (IF which = "error" THEN NoMessage ELSE errorMessage)
         /\ confirmationMessage' = (IF which = "confirmation" THEN NoMessage ELSE confirmationMessage)
    /\ UNCHANGED <<snapshot, informationMessage, localStorage, walletAccount, tasks>>

\* ------------------------------------------------------------------ loadInformation
\* utils.getUserAddress(wallet) resolved; getSimilarContractAddresses is called.
loadInformation_userAddress ==
    /\ tasks[0].pc = "getUserAddress"
    /\ tasks' = [tasks EXCEPT ![0] = [@ EXCEPT !.u = walletAccount, !.a = contractAddress,
                                               !.pc = "getSimilar", !.calls = @ + 1]]
    /\ UNCHANGED <<snapshot, messages, localStorage, walletAccount>>

\* getSimilarContractAddresses resolved; getContractStorage(this.state.contractAddress) is called.
loadInformation_similar ==
    /\ tasks[0].pc = "getSimilar"
    /\ tasks' = [tasks EXCEPT ![0] = [@ EXCEPT !.b = contractAddress,
                                               !.pc = "getStorage", !.calls = @ + 1]]
    /\ UNCHANGED <<snapshot, messages, localStorage, walletAccount>>

\* getContractStorage resolved; getBalance(this.state.contractAddress) is called.
loadInformation_storage ==
    /\ tasks[0].pc = "getStorage"
    /\ tasks' = [tasks EXCEPT ![0] = [@ EXCEPT !.c = contractAddress,
                                               !.pc = "getBalance", !.calls = @ + 1]]
    /\ UNCHANGED <<snapshot, messages, localStorage, walletAccount>>

\* this.setState(newState) of loadInformation: the keys newState was given.
loadInformation_setState(hasStorage, hasVotes) ==
    LET task == tasks[0]
        st == getContractStorage(task.b, 0)
    IN  /\ userAddress' = task.u
        /\ contractAddresses' = task.a
        /\ storage' = st
        /\ balance' = getBalance(task.c, 0)
        /\ userAliases' = (IF hasStorage THEN getUserAliases(st, 0) ELSE userAliases)
        /\ proposals' = (IF hasStorage THEN getBigmapKeys(st, 0) ELSE proposals)
        /\ userVotes' = (IF hasVotes THEN getUserVotes(task.u, st, 0) ELSE userVotes)
        /\ tasks' = [tasks EXCEPT ![0] = Settle(@, "ok")]
        /\ UNCHANGED <<contractAddress, contract, messages, localStorage, walletAccount>>

\* getBalance resolved; with a storage getUserAliases is called, without one the state is set.
loadInformation_balance ==
    /\ tasks[0].pc = "getBalance"
    /\ IF getContractStorage(tasks[0].b, 0) # NoData
       THEN /\ tasks' = [tasks EXCEPT ![0] = [@ EXCEPT !.pc = "getAliases", !.calls = @ + 1]]
            /\ UNCHANGED <<snapshot, messages, localStorage, walletAccount>>
       ELSE loadInformation_setState(FALSE, FALSE)

\* getUserAliases resolved; getBigmapKeys(storage.proposals) is called.
loadInformation_aliases ==
    /\ tasks[0].pc = "getAliases"
    /\ tasks' = [tasks EXCEPT ![0] = [@ EXCEPT !.pc = "getProposals", !.calls = @ + 1]]
    /\ UNCHANGED <<snapshot, messages, localStorage, walletAccount>>

\* getBigmapKeys resolved; with a user address getUserVotes is called, else the state is set.
loadInformation_proposals ==
    /\ tasks[0].pc = "getProposals"
    /\ IF tasks[0].u # undefined
       THEN /\ tasks' = [tasks EXCEPT ![0] = [@ EXCEPT !.pc = "getVotes", !.calls = @ + 1]]
            /\ UNCHANGED <<snapshot, messages, localStorage, walletAccount>>
       ELSE loadInformation_setState(TRUE, FALSE)

\* getUserVotes resolved; the state is set.
loadInformation_votes ==
    /\ tasks[0].pc = "getVotes"
    /\ loadInformation_setState(TRUE, TRUE)

\* ------------------------------------------------------------------ setContractAddress
\* A setContractAddress that goes on to validate and fetch the address already selected.
setContractAddress_refetchesSelected(t, a) ==
    /\ CanStart(t)
    /\ IF ~IsProperAddress(a)
       THEN /\ errorMessage' = ErrContractAddress(a)
            /\ tasks' = [tasks EXCEPT ![t] = Settle([@ EXCEPT !.op = "setContractAddress"], "invalid")]
            /\ UNCHANGED <<snapshot, informationMessage, confirmationMessage, localStorage, walletAccount>>
       ELSE /\ tasks' = [tasks EXCEPT ![t] = [@ EXCEPT !.op = "setContractAddress", !.a = a,
                                                       !.pc = "getSimilar", !.calls = 1]]
            /\ UNCHANGED <<snapshot, messages, localStorage, walletAccount>>

\* setContractAddress(a) up to its first await.
setContractAddress(t, a) ==
    /\ CanStart(t)
    /\ IF a = contractAddress
       THEN /\ tasks' = [tasks EXCEPT ![t] = Settle([@ EXCEPT !.op = "setContractAddress"], "noop")]
            /\ UNCHANGED <<snapshot, messages, localStorage, walletAccount>>
       ELSE IF ~IsProperAddress(a)
       THEN /\ errorMessage' = ErrContractAddress(a)
            /\ tasks' = [tasks EXCEPT ![t] = Settle([@ EXCEPT !.op = "setContractAddress"], "invalid")]
            /\ UNCHANGED <<snapshot, informationMessage, confirmationMessage, localStorage, walletAccount>>
       ELSE /\ tasks' = [tasks EXCEPT ![t] = [@ EXCEPT !.op = "setContractAddress", !.a = a,
                                                       !.pc = "getSimilar", !.calls = 1]]
            /\ UNCHANGED <<snapshot, messages, localStorage, walletAccount>>

\* getSimilarContractAddresses, getContractStorage, getUserAliases and getBigmapKeys
\* resolved in turn: the next fetch is called.
setContractAddress_fetch(t) ==
    /\ tasks[t].op = "setContractAddress"
    /\ tasks[t].pc \in {"getSimilar", "getStorage", "getAliases"}
    /\ tasks' = [tasks EXCEPT ![t] = [@ EXCEPT !.calls = @ + 1,
                    !.pc = CASE @ = "getSimilar" -> "getStorage"
                             [] @ = "getStorage" -> "getBalance"
                             [] @ = "getAliases" -> "getProposals"]]
    /\ UNCHANGED <<snapshot, messages, localStorage, walletAccount>>

\* getBalance resolved; storage.users throws when the storage is undefined.
setContractAddress_balance(t) ==
    /\ tasks[t].op = "setContractAddress"
    /\ tasks[t].pc = "getBalance"
    /\ tasks' = [tasks EXCEPT ![t] =
                    IF getContractStorage(@.a, t) = NoData THEN Settle(@, "threw")
                    ELSE [@ EXCEPT !.pc = "getAliases", !.calls = @ + 1]]
    /\ UNCHANGED <<snapshot, messages, localStorage, walletAccount>>

\* A setContractAddress that selects the address while the user votes are still fetched.
setContractAddress_proposals_selectsEarly(t) ==
    /\ tasks[t].op = "setContractAddress"
    /\ tasks[t].pc = "getProposals"
    /\ contractAddress' = tasks[t].a
    /\ tasks' = [tasks EXCEPT ![t] = [@ EXCEPT !.u = userAddress, !.pc = "getVotes",
                                               !.calls = @ + 1]]
    /\ UNCHANGED <<userAddress, contractAddresses, storage, balance, userAliases, proposals,
                   userVotes, contract, messages, localStorage, walletAccount>>

\* getBigmapKeys resolved; getUserVotes(this.state.userAddress, storage.votes) is called.
setContractAddress_proposals(t) ==
    /\ tasks[t].op = "setContractAddress"
    /\ tasks[t].pc = "getProposals"
    /\ tasks' = [tasks EXCEPT ![t] = [@ EXCEPT !.u = userAddress, !.pc = "getVotes",
                                               !.calls = @ + 1]]
    /\ UNCHANGED <<snapshot, messages, localStorage, walletAccount>>

\* getUserVotes resolved; the state is set and the address persisted.
setContractAddress_votes(t) ==
    /\ tasks[t].op = "setContractAddress"
    /\ tasks[t].pc = "getVotes"
    /\ LET a == tasks[t].a
           st == getContractStorage(a, t)
       IN  /\ contractAddresses' = a
           /\ contractAddress' = a
           /\ storage' = st
           /\ balance' = getBalance(a, t)
           /\ userAliases' = getUserAliases(st, t)
           /\ proposals' = getBigmapKeys(st, t)
           /\ userVotes' = getUserVotes(tasks[t].u, st, t)
           /\ contract' = undefined
           /\ localStorage' = a
    /\ tasks' = [tasks EXCEPT ![t] = Settle(@, "ok")]
    /\ UNCHANGED <<userAddress, messages, walletAccount>>

\* ------------------------------------------------------------------ getContract
CreateOps == {"createTextProposal", "createTransferMutezProposal", "createTransferTokenProposal",
              "createMinimumVotesProposal", "createExpirationTimeProposal",
              "createAddUserProposal", "createRemoveUserProposal", "createLambdaFunctionProposal"}
ContractOps == CreateOps \cup {"voteProposal", "executeProposal"}

\* The operation is sent with handle h. A create...Proposal handler calls createProposal
\* without awaiting it, so its own promise settles here.
CallSend(task, h) ==
    [task EXCEPT !.pc = "send", !.h = h, !.a = undefined, !.calls = @ + 1,
                 !.returned = (task.op \in CreateOps)]

\* await this.state.getContract(): the cached handle is returned at once, else
\* utils.getContract(tezos, this.state.contractAddress) is called.
getContract(task) ==
    IF contract # undefined THEN CallSend(task, contract)
    ELSE [task EXCEPT !.pc = "getContract", !.a = contractAddress, !.calls = @ + 1]

\* utils.getContract resolved, with a handle or with undefined; the handle is cached.
getContract_resolved(t, ok) ==
    /\ tasks[t].pc = "getContract"
    /\ contract' = (IF ok THEN tasks[t].a ELSE undefined)
    /\ tasks' = [tasks EXCEPT ![t] = IF ok THEN CallSend(@, @.a) ELSE Settle(@, "nocontract")]
    /\ UNCHANGED <<userAddress, contractAddresses, contractAddress, storage, balance,
                   userAliases, proposals, userVotes, messages, localStorage, walletAccount>>

\* ------------------------------------------------------------------ validation
\* A rejection with one slot for the three messages: the error replaces the others.
Reject_oneSlot(t, op, message) ==
    /\ errorMessage' = message
    /\ informationMessage' = NoMessage
    /\ confirmationMessage' = NoMessage
    /\ tasks' = [tasks EXCEPT ![t] = Settle([@ EXCEPT !.op = op], "invalid")]
    /\ UNCHANGED <<snapshot, localStorage, walletAccount>>

\* A handler sets the error message and returns.
Reject(t, op, message) ==
    /\ errorMessage' = message
    /\ tasks' = [tasks EXCEPT ![t] = Settle([@ EXCEPT !.op = op], "invalid")]
    /\ UNCHANGED <<snapshot, informationMessage, confirmationMessage, localStorage, walletAccount>>

\* A handler passed its checks and asks for the contract handle.
Proceed(t, op) ==
    /\ tasks' = [tasks EXCEPT ![t] = getContract([@ EXCEPT !.op = op])]
    /\ UNCHANGED <<snapshot, messages, localStorage, walletAccount>>

\* The index of the first transfer whose destination is not a proper address, 0 if none.
RECURSIVE FirstBadDestination(_, _)
FirstBadDestination(transfers, i) ==
    IF i > Len(transfers) THEN 0
    ELSE IF ~IsProperAddress(transfers[i].destination) THEN i
    ELSE FirstBadDestination(transfers, i + 1)

\* totalAmount after the loop over the transfers.
RECURSIVE TotalAmount(_)
TotalAmount(transfers) ==
    IF transfers = <<>> THEN 0 ELSE Head(transfers).amount + TotalAmount(Tail(transfers))

createTextProposal(t, ipfsPath) ==
    /\ CanStart(t)
    /\ IF ipfsPath = undefined \/ ipfsPath = ""
       THEN Reject(t, "createTextProposal", ErrTextNotUploaded)
       ELSE Proceed(t, "createTextProposal")

createTransferMutezProposal(t, transfers) ==
    /\ CanStart(t)
    /\ LET i == FirstBadDestination(transfers, 1)
       IN  IF i # 0
           THEN Reject(t, "createTransferMutezProposal", ErrAddress(transfers[i].destination))
           ELSE IF JsGreater(TotalAmount(transfers), Amount(balance))
           THEN Reject(t, "createTransferMutezProposal", ErrBalance)
           ELSE Proceed(t, "createTransferMutezProposal")

createTransferTokenProposal(t, tokenAddress, transfers) ==
    /\ CanStart(t)
    /\ LET i == FirstBadDestination(transfers, 1)
       IN  IF ~IsProperAddress(tokenAddress)
           THEN Reject(t, "createTransferTokenProposal", ErrTokenAddress(tokenAddress))
           ELSE IF i # 0
           THEN Reject(t, "createTransferTokenProposal", ErrAddress(transfers[i].destination))
           ELSE Proceed(t, "createTransferTokenProposal")

createMinimumVotesProposal(t, minimumVotes) ==
    /\ CanStart(t)
    /\ IF minimumVotes <= 0 \/ JsGreater(minimumVotes, UsersLength(storage))
       THEN Reject(t, "createMinimumVotesProposal", ErrMinimumVotes)
       ELSE Proceed(t, "createMinimumVotesProposal")

createExpirationTimeProposal(t, expirationTime) ==
    /\ CanStart(t)
    /\ IF expirationTime <= 0
       THEN Reject(t, "createExpirationTimeProposal", ErrExpirationTime)
       ELSE Proceed(t, "createExpirationTimeProposal")

createAddUserProposal(t, newUser) ==
    /\ CanStart(t)
    /\ IF ~IsProperAddress(newUser)
       THEN Reject(t, "createAddUserProposal", ErrAddress(newUser))
       ELSE IF UsersIncludes(storage, newUser)
       THEN Reject(t, "createAddUserProposal", ErrAlreadyUser)
       ELSE Proceed(t, "createAddUserProposal")

createRemoveUserProposal(t, oldUser) ==
    /\ CanStart(t)
    /\ IF ~IsProperAddress(oldUser)
       THEN Reject(t, "createRemoveUserProposal", ErrAddress(oldUser))
       ELSE IF ~UsersIncludes(storage, oldUser)
       THEN Reject(t, "createRemoveUserProposal", ErrNotUser)
       ELSE Proceed(t, "createRemoveUserProposal")

createLambdaFunctionProposal(t, michelineCode) ==
    /\ CanStart(t)
    /\ IF ParseThrows(michelineCode)
       THEN Reject(t, "createLambdaFunctionProposal", ErrLambda)
       ELSE Proceed(t, "createLambdaFunctionProposal")

voteProposal(t) ==
    /\ CanStart(t)
    /\ Proceed(t, "voteProposal")

executeProposal(t) ==
    /\ CanStart(t)
    /\ Proceed(t, "executeProposal")

\* ------------------------------------------------------------------ send, confirm, refresh
\* What follows confirmOperation. executeProposal calls
\* getContractStorage(this.state.contractAddress); createProposal and voteProposal read
\* this.state.storage.proposals, which throws when the storage is undefined, and call
\* getBigmapKeys.
BeginRefresh(task) ==
    IF task.op = "executeProposal"
    THEN [task EXCEPT !.pc = "getStorage", !.b = contractAddress, !.calls = @ + 1]
    ELSE IF storage = NoData THEN Settle(task, "threw")
    ELSE [task EXCEPT !.pc = "getProposals", !.b = storage.addr, !.calls = @ + 1]

\* A send whose handler is left waiting for ever when the send is rejected.
send_resolved_hangsOnRejection(t, ok) ==
    /\ tasks[t].op \in ContractOps
    /\ tasks[t].pc = "send"
    /\ informationMessage' = (IF ok THEN MsgWaiting ELSE informationMessage)
    /\ tasks' = [tasks EXCEPT ![t] =
                    IF ok THEN [@ EXCEPT !.sent = "sent", !.pc = "confirm", !.calls = @ + 1]
                    ELSE [@ EXCEPT !.sent = "sendFailed", !.pc = "rejected"]]
    /\ UNCHANGED <<snapshot, confirmationMessage, errorMessage, localStorage, walletAccount>>

\* A send whose handler starts the refresh without waiting for the confirmation.
send_resolved_refreshesAtOnce(t, ok) ==
    /\ tasks[t].op \in ContractOps
    /\ tasks[t].pc = "send"
    /\ informationMessage' = informationMessage
    /\ tasks' = [tasks EXCEPT ![t] =
                    BeginRefresh([@ EXCEPT !.sent = IF ok THEN "sent" ELSE "sendFailed"])]
    /\ UNCHANGED <<snapshot, confirmationMessage, errorMessage, localStorage, walletAccount>>

\* send() resolved or rejected. A rejection is logged and leaves the operation undefined:
\* confirmOperation returns at once and the refresh starts. Otherwise confirmOperation
\* sets the information message and awaits operation.confirmation(1).
send_resolved(t, ok) ==
    /\ tasks[t].op \in ContractOps
    /\ tasks[t].pc = "send"
    /\ informationMessage' = (IF ok THEN MsgWaiting ELSE informationMessage)
    /\ tasks' = [tasks EXCEPT ![t] =
                    IF ok THEN [@ EXCEPT !.sent = "sent", !.pc = "confirm", !.calls = @ + 1]
                    ELSE BeginRefresh([@ EXCEPT !.sent = "sendFailed"])]
    /\ UNCHANGED <<snapshot, confirmationMessage, errorMessage, localStorage, walletAccount>>

\* A confirmOperation that removes the error message along with the information message.
confirmOperation_resolved_clearsError(t, ok) ==
    /\ tasks[t].op \in ContractOps
    /\ tasks[t].pc = "confirm"
    /\ informationMessage' = NoMessage
    /\ errorMessage' = NoMessage
    /\ tasks' = [tasks EXCEPT ![t] =
                    BeginRefresh([@ EXCEPT !.sent = IF ok THEN "confirmed" ELSE "confirmFailed"])]
    /\ UNCHANGED <<snapshot, confirmationMessage, localStorage, walletAccount>>

\* operation.confirmation(1) resolved or rejected (a rejection is logged); the information
\* message is removed and the refresh starts.
confirmOperation_resolved(t, ok) ==
    /\ tasks[t].op \in ContractOps
    /\ tasks[t].pc = "confirm"
    /\ informationMessage' = NoMessage
    /\ tasks' = [tasks EXCEPT ![t] =
                    BeginRefresh([@ EXCEPT !.sent = IF ok THEN "confirmed" ELSE "confirmFailed"])]
    /\ UNCHANGED <<snapshot, confirmationMessage, errorMessage, localStorage, walletAccount>>

\* A refresh that writes a re-fetched storage along with the proposals.
createProposal_proposals_withStorage(t) ==
    /\ tasks[t].op \in CreateOps
    /\ tasks[t].pc = "getProposals"
    /\ proposals' = getBigmapKeys([addr |-> tasks[t].b], t)
    /\ storage' = getContractStorage(tasks[t].b, t)
    /\ tasks' = [tasks EXCEPT ![t] = Settle(@, "ok")]
    /\ UNCHANGED <<userAddress, contractAddresses, contractAddress, balance,
                   userAliases, userVotes, contract, messages, localStorage, walletAccount>>

\* A refresh that writes re-fetched user votes along with the proposals.
createProposal_proposals_withVotes(t) ==
    /\ tasks[t].op \in CreateOps
    /\ tasks[t].pc = "getProposals"
    /\ proposals' = getBigmapKeys([addr |-> tasks[t].b], t)
    /\ userVotes' = getUserVotes(userAddress, [addr |-> tasks[t].b], t)
    /\ tasks' = [tasks EXCEPT ![t] = Settle(@, "ok")]
    /\ UNCHANGED <<userAddress, contractAddresses, contractAddress, storage, balance,
                   userAliases, contract, messages, localStorage, walletAccount>>

\* createProposal: getBigmapKeys resolved; the proposals are set.
createProposal_proposals(t) ==
    /\ tasks[t].op \in CreateOps
    /\ tasks[t].pc = "getProposals"
    /\ proposals' = getBigmapKeys([addr |-> tasks[t].b], t)
    /\ tasks' = [tasks EXCEPT ![t] = Settle(@, "ok")]
    /\ UNCHANGED <<userAddress, contractAddresses, contractAddress, storage, balance,
                   userAliases, userVotes, contract, messages, localStorage, walletAccount>>

\* voteProposal: getBigmapKeys resolved; getUserVotes(this.state.userAddress, storage.votes)
\* is called.
voteProposal_proposals(t) ==
    /\ tasks[t].op = "voteProposal"
    /\ tasks[t].pc = "getProposals"
    /\ tasks' = [tasks EXCEPT ![t] = [@ EXCEPT !.u = userAddress, !.pc = "getVotes",
                                               !.calls = @ + 1]]
    /\ UNCHANGED <<snapshot, messages, localStorage, walletAccount>>

\* A vote refresh that sets the proposals and leaves the user votes as they were.
voteProposal_votes_proposalsOnly(t) ==
    /\ tasks[t].op = "voteProposal"
    /\ tasks[t].pc = "getVotes"
    /\ proposals' = getBigmapKeys([addr |-> tasks[t].b], t)
    /\ tasks' = [tasks EXCEPT ![t] = Settle(@, "ok")]
    /\ UNCHANGED <<userAddress, contractAddresses, contractAddress, storage, balance,
                   userAliases, userVotes, contract, messages, localStorage, walletAccount>>

\* voteProposal: getUserVotes resolved; the proposals and the user votes are set.
voteProposal_votes(t) ==
    /\ tasks[t].op = "voteProposal"
    /\ tasks[t].pc = "getVotes"
    /\ proposals' = getBigmapKeys([addr |-> tasks[t].b], t)
    /\ userVotes' = getUserVotes(tasks[t].u, [addr |-> tasks[t].b], t)
    /\ tasks' = [tasks EXCEPT ![t] = Settle(@, "ok")]
    /\ UNCHANGED <<userAddress, contractAddresses, contractAddress, storage, balance,
                   userAliases, contract, messages, localStorage, walletAccount>>

\* executeProposal: getContractStorage resolved; getBalance(this.state.contractAddress)
\* is called.
executeProposal_storage(t) ==
    /\ tasks[t].op = "executeProposal"
    /\ tasks[t].pc = "getStorage"
    /\ tasks' = [tasks EXCEPT ![t] = [@ EXCEPT !.c = contractAddress, !.pc = "getBalance",
                                               !.calls = @ + 1]]
    /\ UNCHANGED <<snapshot, messages, localStorage, walletAccount>>

\* executeProposal: getBalance and getUserAliases resolved in turn; storage.users throws
\* when the storage is undefined.
executeProposal_fetch(t) ==
    /\ tasks[t].op = "executeProposal"
    /\ tasks[t].pc \in {"getBalance", "getAliases"}
    /\ tasks' = [tasks EXCEPT ![t] =
                    IF getContractStorage(@.b, t) = NoData THEN Settle(@, "threw")
                    ELSE [@ EXCEPT !.calls = @ + 1,
                                   !.pc = IF @ = "getBalance" THEN "getAliases" ELSE "getProposals"]]
    /\ UNCHANGED <<snapshot, messages, localStorage, walletAccount>>

\* An execution refresh that derives the aliases and the proposals from the storage the
\* snapshot holds instead of the storage it fetched.
executeProposal_proposals_fromHeldStorage(t) ==
    /\ tasks[t].op = "executeProposal"
    /\ tasks[t].pc = "getProposals"
    /\ storage' = getContractStorage(tasks[t].b, t)
    /\ balance' = getBalance(tasks[t].c, t)
    /\ userAliases' = getUserAliases(storage, t)
    /\ proposals' = getBigmapKeys(storage, t)
    /\ tasks' = [tasks EXCEPT ![t] = Settle(@, "ok")]
    /\ UNCHANGED <<userAddress, contractAddresses, contractAddress, userVotes, contract,
                   messages, localStorage, walletAccount>>

\* executeProposal: getBigmapKeys resolved; storage, balance, aliases and proposals are set.
executeProposal_proposals(t) ==
    /\ tasks[t].op = "executeProposal"
    /\ tasks[t].pc = "getProposals"
    /\ LET st == getContractStorage(tasks[t].b, t)
       IN  /\ storage' = st
           /\ balance' = getBalance(tasks[t].c, t)
           /\ userAliases' = getUserAliases(st, t)
           /\ proposals' = getBigmapKeys(st, t)
    /\ tasks' = [tasks EXCEPT ![t] = Settle(@, "ok")]
    /\ UNCHANGED <<userAddress, contractAddresses, contractAddress, userVotes, contract,
                   messages, localStorage, walletAccount>>

\* ------------------------------------------------------------------ wallet
\* connectWallet up to wallet.requestPermissions; the sync button shows without a user.
connectWallet(t) ==
    /\ CanStart(t)
    /\ userAddress = undefined
    /\ tasks' = [tasks EXCEPT ![t] = [@ EXCEPT !.op = "connectWallet",
                                               !.pc = "requestPermissions", !.calls = 1]]
    /\ UNCHANGED <<snapshot, messages, localStorage, walletAccount>>

\* A connectWallet that shows a rejected permission request as an error message.
connectWallet_permissions_reportsRejection(t, granted) ==
    /\ tasks[t].op = "connectWallet"
    /\ tasks[t].pc = "requestPermissions"
    /\ walletAccount' = (IF granted THEN WalletUser ELSE walletAccount)
    /\ errorMessage' = (IF granted THEN errorMessage ELSE <<"Error while requesting wallet permissions">>)
    /\ tasks' = [tasks EXCEPT ![t] = [@ EXCEPT !.pc = "getUserAddress", !.calls = @ + 1,
                                               !.granted = IF granted THEN "granted" ELSE "rejected"]]
    /\ UNCHANGED <<snapshot, informationMessage, confirmationMessage, localStorage>>

\* requestPermissions resolved or rejected (a rejection is logged);
\* utils.getUserAddress(wallet) is called.
connectWallet_permissions(t, granted) ==
    /\ tasks[t].op = "connectWallet"
    /\ tasks[t].pc = "requestPermissions"
    /\ walletAccount' = (IF granted THEN WalletUser ELSE walletAccount)
    /\ tasks' = [tasks EXCEPT ![t] = [@ EXCEPT !.pc = "getUserAddress", !.calls = @ + 1,
                                               !.granted = IF granted THEN "granted" ELSE "rejected"]]
    /\ UNCHANGED <<snapshot, messages, localStorage>>

\* getUserAddress resolved; the user address is set, and with a storage and a user
\* getUserVotes(userAddress, this.state.storage.votes) is called.
connectWallet_userAddress(t) ==
    /\ tasks[t].op = "connectWallet"
    /\ tasks[t].pc = "getUserAddress"
    /\ userAddress' = walletAccount
    /\ tasks' = [tasks EXCEPT ![t] =
                    IF storage # NoData /\ walletAccount # undefined
                    THEN [@ EXCEPT !.u = walletAccount, !.b = storage.addr,
                                   !.pc = "getVotes", !.calls = @ + 1]
                    ELSE Settle(@, "ok")]
    /\ UNCHANGED <<contractAddresses, contractAddress, storage, balance, userAliases,
                   proposals, userVotes, contract, messages, localStorage, walletAccount>>

\* getUserVotes resolved; the user votes are set.
connectWallet_votes(t) ==
    /\ tasks[t].op = "connectWallet"
    /\ tasks[t].pc = "getVotes"
    /\ userVotes' = getUserVotes(tasks[t].u, [addr |-> tasks[t].b], t)
    /\ tasks' = [tasks EXCEPT ![t] = Settle(@, "ok")]
    /\ UNCHANGED <<userAddress, contractAddresses, contractAddress, storage, balance,
                   userAliases, proposals, contract, messages, localStorage, walletAccount>>

\* disconnectWallet up to wallet.clearActiveAccount; the unsync button shows with a user.
disconnectWallet(t) ==
    /\ CanStart(t)
    /\ userAddress # undefined
    /\ tasks' = [tasks EXCEPT ![t] = [@ EXCEPT !.op = "disconnectWallet",
                                               !.pc = "clearActiveAccount", !.calls = 1]]
    /\ UNCHANGED <<snapshot, messages, localStorage, walletAccount>>

\* A disconnect that forgets the user and keeps the votes fetched for them.
disconnectWallet_cleared_keepsVotes(t) ==
    /\ tasks[t].op = "disconnectWallet"
    /\ tasks[t].pc = "clearActiveAccount"
    /\ walletAccount' = undefined
    /\ userAddress' = undefined
    /\ contract' = undefined
    /\ tasks' = [tasks EXCEPT ![t] = Settle(@, "ok")]
    /\ UNCHANGED <<contractAddresses, contractAddress, storage, balance, userAliases,
                   proposals, userVotes, messages, localStorage>>

\* clearActiveAccount resolved; the user related state is reset.
disconnectWallet_cleared(t) ==
    /\ tasks[t].op = "disconnectWallet"
    /\ tasks[t].pc = "clearActiveAccount"
    /\ walletAccount' = undefined
    /\ userAddress' = undefined
    /\ userVotes' = NoData
    /\ contract' = undefined
    /\ tasks' = [tasks EXCEPT ![t] = Settle(@, "ok")]
    /\ UNCHANGED <<contractAddresses, contractAddress, storage, balance, userAliases,
                   proposals, messages, localStorage>>

\* ------------------------------------------------------------------ originate, uploads
\* Whether some address of the list is not a proper address.
SomeBadUser(users) == \E i \in 1..Len(users) : ~IsProperAddress(users[i])

\* originate up to the metadata upload. The loop over the users calls this.setErrorMessage,
\* which the component does not define: the call throws, no message is set.
originate(t, users, minimumVotes, expirationTime) ==
    /\ CanStart(t)
    /\ IF SomeBadUser(users)
       THEN /\ tasks' = [tasks EXCEPT ![t] = Settle([@ EXCEPT !.op = "originate"], "threw")]
            /\ UNCHANGED <<snapshot, messages, localStorage, walletAccount>>
       ELSE IF minimumVotes <= 0 \/ minimumVotes > Len(users)
       THEN Reject(t, "originate", ErrMinimumVotes)
       ELSE IF expirationTime <= 0
       THEN Reject(t, "originate", ErrExpirationTime)
       ELSE /\ tasks' = [tasks EXCEPT ![t] = [@ EXCEPT !.op = "originate", !.pc = "upload",
                                  !.calls = 1,
                                  !.origination = [users |-> users, minimumVotes |-> minimumVotes,
                                                   expirationTime |-> expirationTime]]]
            /\ UNCHANGED <<snapshot, messages, localStorage, walletAccount>>

\* originate: ipfsClient.add settled; tezos.wallet.originate(...).send() is called.
originate_upload(t) ==
    /\ tasks[t].op = "originate"
    /\ tasks[t].pc = "upload"
    /\ tasks' = [tasks EXCEPT ![t] = [@ EXCEPT !.pc = "send", !.calls = @ + 1,
                                               !.origination = OriginationStorage(@)]]
    /\ UNCHANGED <<snapshot, messages, localStorage, walletAccount>>

\* originate: send() resolved or rejected. With an operation the information message is
\* set and originationOperation() awaited; without one the message is set and removed.
originate_send(t, ok) ==
    /\ tasks[t].op = "originate"
    /\ tasks[t].pc = "send"
    /\ informationMessage' = (IF ok THEN MsgWaiting ELSE NoMessage)
    /\ tasks' = [tasks EXCEPT ![t] =
                    IF ok THEN [@ EXCEPT !.sent = "sent", !.pc = "confirm", !.calls = @ + 1]
                    ELSE Settle([@ EXCEPT !.sent = "sendFailed"], "ok")]
    /\ UNCHANGED <<snapshot, confirmationMessage, errorMessage, localStorage, walletAccount>>

\* originate: originationOperation() resolved or rejected; the message is removed and
\* newContractAddress, undefined after a rejection, is logged.
originate_confirm(t, ok) ==
    /\ tasks[t].op = "originate"
    /\ tasks[t].pc = "confirm"
    /\ informationMessage' = NoMessage
    /\ tasks' = [tasks EXCEPT ![t] =
                    [Settle([@ EXCEPT !.sent = IF ok THEN "confirmed" ELSE "confirmFailed"], "ok")
                        EXCEPT !.a = IF ok THEN NewContract ELSE undefined]]
    /\ UNCHANGED <<snapshot, confirmationMessage, errorMessage, localStorage, walletAccount>>

\* uploadMetadataToIpfs(metadata, display) up to ipfsClient.add.
uploadMetadataToIpfs(t, display) ==
    /\ CanStart(t)
    /\ informationMessage' = (IF display THEN MsgUploadingJson ELSE informationMessage)
    /\ tasks' = [tasks EXCEPT ![t] = [@ EXCEPT !.op = "uploadMetadataToIpfs", !.pc = "upload",
                                               !.display = display, !.calls = 1]]
    /\ UNCHANGED <<snapshot, confirmationMessage, errorMessage, localStorage, walletAccount>>

\* uploadFileToIpfs(file, display) up to ipfsClient.add.
uploadFileToIpfs(t, file, display) ==
    /\ CanStart(t)
    /\ IF file = undefined
       THEN Reject(t, "uploadFileToIpfs", ErrNoFile)
       ELSE /\ informationMessage' = (IF display THEN MsgUploadingFile ELSE informationMessage)
            /\ tasks' = [tasks EXCEPT ![t] = [@ EXCEPT !.op = "uploadFileToIpfs", !.pc = "upload",
                                                       !.display = display, !.calls = 1]]
            /\ UNCHANGED <<snapshot, confirmationMessage, errorMessage, localStorage, walletAccount>>

\* ipfsClient.add settled (a rejection is logged); the information message is removed.
upload_settled(t) ==
    /\ tasks[t].op \in {"uploadMetadataToIpfs", "uploadFileToIpfs"}
    /\ tasks[t].pc = "upload"
    /\ informationMessage' = (IF tasks[t].display THEN NoMessage ELSE informationMessage)
    /\ tasks' = [tasks EXCEPT ![t] = Settle(@, "ok")]
    /\ UNCHANGED <<snapshot, confirmationMessage, errorMessage, localStorage, walletAccount>>

\* ------------------------------------------------------------------ specification
\* The user starts a handler.
Start(t) ==
    \/ \E a \in ContractInputs : setContractAddress(t, a)
    \/ connectWallet(t)
    \/ disconnectWallet(t)
    \/ \E p \in IpfsPathInputs : createTextProposal(t, p)
    \/ \E tr \in MutezTransferInputs : createTransferMutezProposal(t, tr)
    \/ \E a \in TokenAddressInputs, tr \in TokenTransferInputs : createTransferTokenProposal(t, a, tr)
    \/ \E n \in VotesInputs : createMinimumVotesProposal(t, n)
    \/ \E n \in ExpirationInputs : createExpirationTimeProposal(t, n)
    \/ \E a \in UserInputs : createAddUserProposal(t, a)
    \/ \E a \in UserInputs : createRemoveUserProposal(t, a)
    \/ \E m \in MichelineInputs : createLambdaFunctionProposal(t, m)
    \/ voteProposal(t)
    \/ executeProposal(t)
    \/ \E us \in OriginateUsersInputs, n \in VotesInputs, e \in ExpirationInputs : originate(t, us, n, e)
    \/ \E d \in BOOLEAN : uploadMetadataToIpfs(t, d)
    \/ \E f \in FileInputs, d \in BOOLEAN : uploadFileToIpfs(t, f, d)

\* A collaborator call of a handler settles and the handler resumes.
Resume(t) ==
    \/ setContractAddress_fetch(t)
    \/ setContractAddress_balance(t)
    \/ setContractAddress_proposals(t)
    \/ setContractAddress_votes(t)
    \/ \E ok \in BOOLEAN : getContract_resolved(t, ok)
    \/ \E ok \in BOOLEAN : send_resolved(t, ok)
    \/ \E ok \in BOOLEAN : confirmOperation_resolved(t, ok)
    \/ createProposal_proposals(t)
    \/ voteProposal_proposals(t)
    \/ voteProposal_votes(t)
    \/ executeProposal_storage(t)
    \/ executeProposal_fetch(t)
    \/ executeProposal_proposals(t)
    \/ \E granted \in BOOLEAN : connectWallet_permissions(t, granted)
    \/ connectWallet_userAddress(t)
    \/ connectWallet_votes(t)
    \/ disconnectWallet_cleared(t)
    \/ originate_upload(t)
    \/ \E ok \in BOOLEAN : originate_send(t, ok)
    \/ \E ok \in BOOLEAN : originate_confirm(t, ok)
    \/ upload_settled(t)

Next ==
    \/ loadInformation_userAddress
    \/ loadInformation_similar
    \/ loadInformation_storage
    \/ loadInformation_balance
    \/ loadInformation_aliases
    \/ loadInformation_proposals
    \/ loadInformation_votes
    \/ DismissMessage
    \/ \E t \in UserTasks : Start(t)
    \/ \E t \in UserTasks : Resume(t)

Spec == Init /\ [][Next]_vars
\* Two handlers of the user may overlap.
SpecOverlap == InitOverlap /\ [][Next]_vars

\* Every collaborator call settles and the continuation of its await is run.
SpecFair ==
    /\ Init /\ [][Next]_vars
    /\ WF_vars(loadInformation_userAddress) /\ WF_vars(loadInformation_similar)
    /\ WF_vars(loadInformation_storage) /\ WF_vars(loadInformation_balance)
    /\ WF_vars(loadInformation_aliases) /\ WF_vars(loadInformation_proposals)
    /\ WF_vars(loadInformation_votes)
    /\ \A t \in 1..MaxTasks : WF_vars(Resume(t))

\* ------------------------------------------------------------------ properties
\* The handlers have all settled.
AllSettled == \A t \in DOMAIN tasks : tasks[t].pc \in {"idle", "done"}

\* Fetched data d belongs to contract a (or there is none).
Of(d, a) == d = NoData \/ d.addr = a

\* Handler t returned from its synchronous part with an error message among msgs,
\* without a collaborator call and without touching the snapshot or the persisted address.
RejectedWith(t, msgs) ==
    /\ errorMessage' \in msgs
    /\ tasks'[t].pc = "done"
    /\ tasks'[t].calls = 0
    /\ UNCHANGED <<snapshot, localStorage>>

\* The addresses that fail the address-format validation.
IllFormed(a) == a \notin Contracts \cup Accounts

\* The elements of a list.
Range(list) == {list[i] : i \in 1..Len(list)}

\* C1: results fetched for a previous contract selection are discarded on arrival, so
\* once every handler has settled, storage, balance, userAliases, proposals and
\* userVotes are those of the selected contract address.
C1_StaleResultsDiscarded ==
    AllSettled =>
        /\ Of(storage, contractAddress)
        /\ Of(balance, contractAddress)
        /\ Of(userAliases, contractAddress)
        /\ Of(proposals, contractAddress)
        /\ Of(userVotes, contractAddress)

\* C2: in every snapshot the derived fields (balance, userAliases, proposals, userVotes)
\* come from the same fetch as the storage the snapshot holds; at the least they are
\* never those of another contract than the storage's.
C2_DerivedOfStorageContract ==
    storage # NoData =>
        /\ Of(balance, storage.addr)
        /\ Of(userAliases, storage.addr)
        /\ Of(proposals, storage.addr)
        /\ Of(userVotes, storage.addr)

\* Handler t changes the state of a contract and is between its submission and the end
\* of its refresh: a sent proposal, vote or execution, or a setContractAddress at work.
StateChangeInFlight(t) ==
    /\ tasks[t].pc \notin {"idle", "done"}
    /\ \/ tasks[t].op = "setContractAddress"
       \/ tasks[t].op \in ContractOps /\ tasks[t].sent \in {"sent", "confirmed", "confirmFailed"}

\* C3: at most one state-changing action is in flight at a time: no state has two
\* actions both between their submission and their refresh.
C3_OneActionInFlight ==
    \A t1, t2 \in UserTasks :
        StateChangeInFlight(t1) /\ StateChangeInFlight(t2) => t1 = t2

\* The send of handler t's proposal operation fails in this step.
ProposalSendFails(t) ==
    tasks[t].op \in CreateOps /\ tasks[t].pc = "send" /\ tasks'[t].sent = "sendFailed"
\* The confirmation wait of handler t's proposal operation fails in this step.
ProposalConfirmationFails(t) ==
    tasks[t].op \in CreateOps /\ tasks[t].pc = "confirm" /\ tasks'[t].sent = "confirmFailed"

\* C4, as claimed: when the send of a proposal operation or its confirmation wait fails,
\* the error message is set and the storage is left unchanged.
C4_FailureSetsErrorMessage ==
    [][\A t \in UserTasks :
          ProposalSendFails(t) \/ ProposalConfirmationFails(t)
              => errorMessage' # NoMessage /\ storage' = storage]_vars

\* C4, amended: when the send of a proposal operation or its confirmation wait fails,
\* the failure is only logged: the error message stays as it was, and no step of the
\* proposal handler, up to and including its refresh, changes the storage.
C4_FailureIsOnlyLogged ==
    [][\A t \in UserTasks :
          /\ ProposalSendFails(t) \/ ProposalConfirmationFails(t)
                => errorMessage' = errorMessage /\ storage' = storage
          /\ tasks[t].op \in CreateOps /\ tasks'[t] # tasks[t] => storage' = storage]_vars

\* A proposal operation failed, no error message shows, and the handler has done its refresh.
C4_Witness ==
    \E t \in UserTasks :
        /\ tasks[t].op \in CreateOps
        /\ tasks[t].sent \in {"sendFailed", "confirmFailed"}
        /\ tasks[t].result = "ok"
        /\ storage # NoData
        /\ errorMessage = NoMessage

\* C5: every operation given an address that fails the address-format validation
\* (as destination, user, token contract or contract) rejects with the validation
\* error and makes no collaborator call.
C5_IllFormedAddressRejected ==
    [][\A t \in UserTasks :
          /\ \A a \in ContractInputs :
                setContractAddress(t, a) /\ IllFormed(a)
                    => RejectedWith(t, {ErrContractAddress(a)})
          /\ \A tr \in MutezTransferInputs :
                createTransferMutezProposal(t, tr) /\ (\E i \in 1..Len(tr) : IllFormed(tr[i].destination))
                    => RejectedWith(t, {ErrAddress(tr[i].destination) : i \in 1..Len(tr)})
          /\ \A a \in TokenAddressInputs, tr \in TokenTransferInputs :
                /\ createTransferTokenProposal(t, a, tr)
                /\ IllFormed(a) \/ \E i \in 1..Len(tr) : IllFormed(tr[i].destination)
                => RejectedWith(t, {ErrTokenAddress(a)} \cup {ErrAddress(tr[i].destination) : i \in 1..Len(tr)})
          /\ \A a \in UserInputs :
                (createAddUserProposal(t, a) \/ createRemoveUserProposal(t, a)) /\ IllFormed(a)
                    => RejectedWith(t, {ErrAddress(a)})
          /\ \A us \in OriginateUsersInputs, n \in VotesInputs, e \in ExpirationInputs :
                originate(t, us, n, e) /\ (\E i \in 1..Len(us) : IllFormed(us[i]))
                    => RejectedWith(t, {ErrUserAddress(us[i]) : i \in 1..Len(us)})]_vars

\* C6: a mutez transfer whose amounts sum to more than the balance of the contract is
\* rejected before any call, also while the balance is not loaded, and the balance of
\* the snapshot is unchanged.
C6_OverdrawnTransferRejected ==
    [][\A t \in UserTasks, tr \in MutezTransferInputs :
          createTransferMutezProposal(t, tr) /\ TotalAmount(tr) > ChainBalance(contractAddress)
              => RejectedWith(t, {ErrBalance} \cup {ErrAddress(tr[i].destination) : i \in 1..Len(tr)})]_vars

\* C7: createMinimumVotesProposal(value) reaches the contract only when
\* 0 < value <= number of users of the loaded storage; every other value, also while
\* no storage is loaded, is rejected with the error message and without a call.
C7_MinimumVotesInRange ==
    [][\A t \in UserTasks, n \in VotesInputs :
          createMinimumVotesProposal(t, n) /\ ~(storage # NoData /\ 0 < n /\ n <= Len(Users(storage)))
              => RejectedWith(t, {ErrMinimumVotes})]_vars

C9_OriginateValidationSurfaced ==
    [][\A t \in UserTasks, us \in OriginateUsersInputs, n \in VotesInputs, e \in ExpirationInputs :
          /\ originate(t, us, n, e)
          /\ (\E i \in 1..Len(us) : IllFormed(us[i])) \/ n < 1 \/ n > Len(us) \/ e <= 0
          => RejectedWith(t, {ErrUserAddress(us[i]) : i \in 1..Len(us)}
                               \cup {ErrMinimumVotes, ErrExpirationTime})]_vars

\* C10: setContractAddress with an empty or ill-formed address sets the error message,
\* makes no chain query and leaves contractAddress, storage, the derived fields, the
\* cached handle and the persisted address unchanged.
C10_InvalidContractAddressRejected ==
    [][\A t \in UserTasks, a \in ContractInputs :
          setContractAddress(t, a) /\ (a = "" \/ IllFormed(a))
              => RejectedWith(t, {ErrContractAddress(a)})]_vars

\* The empty address was rejected after a contract had been loaded.
C10_Witness ==
    /\ errorMessage = ErrContractAddress("")
    /\ storage # NoData
    /\ \E t \in UserTasks : tasks[t].op = "setContractAddress" /\ tasks[t].result = "invalid"

\* C11: setContractAddress accepts only contract-class addresses: given a well-formed
\* address of an implicit account it rejects (error message, no chain query, nothing
\* changed), and such an address never becomes the selected contract address.
C11_AccountAddressRejected ==
    [][/\ \A t \in UserTasks, a \in ContractInputs :
             setContractAddress(t, a) /\ a \in Accounts
                 => RejectedWith(t, {ErrContractAddress(a)})
       /\ contractAddress' \notin Accounts]_vars

\* C12: setContractAddress with the address already selected returns at once: no
\* collaborator call, and the snapshot, the messages and the persisted address stay as
\* they were.
C12_SameAddressIsNoOp ==
    [][\A t \in UserTasks, a \in ContractInputs :
          setContractAddress(t, a) /\ a = contractAddress
              => /\ tasks'[t].pc = "done"
                 /\ tasks'[t].calls = 0
                 /\ UNCHANGED <<snapshot, messages, localStorage>>]_vars

\* The selected address was given again after its contract had been loaded, and the
\* handler returned without a call.
C12_Witness ==
    /\ storage # NoData
    /\ storage.addr = contractAddress
    /\ \E t \in UserTasks :
          /\ tasks[t].op = "setContractAddress"
          /\ tasks[t].result = "noop"
          /\ tasks[t].calls = 0

Steps(t, op) == tasks'[t].op = op /\ tasks'[t] # tasks[t]

\* C14: a voteProposal that succeeds end to end awaits one confirmation (its calls are
\* the send, the confirmation, the two fetches and at most the handle), and only after
\* it replaces proposals and userVotes, together in its last step; no step of it changes
\* storage, balance, userAliases, contractAddress or userAddress.
C14_VoteRefreshesProposalsAndVotes ==
    [][\A t \in UserTasks :
          Steps(t, "voteProposal") =>
              /\ UNCHANGED <<storage, balance, userAliases, contractAddress, userAddress>>
              /\ tasks'[t].result # "ok" => UNCHANGED <<proposals, userVotes>>
              /\ tasks'[t].pc = "confirm" => tasks[t].pc = "send" /\ tasks[t].sent = "none"
              /\ tasks'[t].result = "ok" /\ tasks'[t].sent = "confirmed" =>
                    /\ tasks[t].sent = "confirmed"
                    /\ tasks'[t].calls \in {4, 5}
                    /\ proposals' = getBigmapKeys([addr |-> tasks[t].b], t)
                    /\ userVotes' = getUserVotes(tasks[t].u, [addr |-> tasks[t].b], t)]_vars

\* A confirmed vote of the connected user has replaced the proposals and the user votes
\* of a loaded contract.
C14_Witness ==
    \E t \in UserTasks :
        /\ tasks[t].op = "voteProposal" /\ tasks[t].result = "ok" /\ tasks[t].sent = "confirmed"
        /\ storage # NoData
        /\ userAddress # undefined
        /\ proposals = getBigmapKeys(storage, t)
        /\ userVotes = getUserVotes(userAddress, storage, t)

\* C15: after its confirmation an executeProposal fetches the storage and the balance
\* of the contract selected at that moment, then the aliases and the proposals of the
\* storage it fetched, and publishes the four in one update, its last step; no earlier
\* step of it changes any of the four.
C15_ExecuteRefreshesAll ==
    [][\A t \in UserTasks :
          Steps(t, "executeProposal") =>
              /\ tasks'[t].pc = "getStorage" => tasks'[t].b = contractAddress
              /\ tasks'[t].pc = "getBalance" => tasks'[t].c = contractAddress
              /\ tasks'[t].result # "ok" => UNCHANGED <<storage, balance, userAliases, proposals>>
              /\ tasks'[t].result = "ok" /\ tasks'[t].sent = "confirmed" =>
                    /\ tasks[t].sent = "confirmed"
                    /\ storage' = getContractStorage(tasks[t].b, t)
                    /\ storage' # NoData
                    /\ balance' = getBalance(tasks[t].c, t)
                    /\ userAliases' = getUserAliases(storage', t)
                    /\ proposals' = getBigmapKeys(storage', t)]_vars

\* A confirmed execution has replaced the storage, the balance, the aliases and the
\* proposals of the selected contract with those it fetched.
C15_Witness ==
    \E t \in UserTasks :
        /\ tasks[t].op = "executeProposal" /\ tasks[t].result = "ok" /\ tasks[t].sent = "confirmed"
        /\ storage = getContractStorage(contractAddress, t)
        /\ balance = getBalance(contractAddress, t)
        /\ userAliases = getUserAliases(storage, t)
        /\ proposals = getBigmapKeys(storage, t)

\* C16: a proposal submission that passes its validation and is confirmed re-fetches the
\* proposals only: its last step replaces proposals, and no step of it changes storage,
\* balance, userAliases, userVotes, contractAddress or userAddress (the cached handle
\* and the information message are the only other fields it writes).
C16_ProposalRefreshesProposalsOnly ==
    [][\A t \in UserTasks :
          tasks'[t].op \in CreateOps /\ tasks'[t] # tasks[t] =>
              /\ UNCHANGED <<storage, balance, userAliases, userVotes, contractAddress, userAddress>>
              /\ tasks'[t].result # "ok" => proposals' = proposals
              /\ tasks'[t].result = "ok" /\ tasks'[t].sent = "confirmed" =>
                    /\ tasks[t].sent = "confirmed"
                    /\ tasks'[t].calls \in {3, 4}
                    /\ proposals' = getBigmapKeys([addr |-> tasks[t].b], t)]_vars

\* A confirmed proposal has replaced the proposals of a loaded contract and left the
\* storage of the mount in place.
C16_Witness ==
    \E t \in UserTasks :
        /\ tasks[t].op \in CreateOps /\ tasks[t].result = "ok" /\ tasks[t].sent = "confirmed"
        /\ storage = getContractStorage(contractAddress, 0)
        /\ userAliases = getUserAliases(storage, 0)
        /\ proposals = getBigmapKeys(storage, t)

RejectedConnectSteps(t) == Steps(t, "connectWallet") /\ tasks'[t].granted = "rejected"

\* C18, as claimed: when the connector rejects the permission request, connectWallet
\* leaves userAddress absent, does not set the error message and leaves the rest of the
\* snapshot as it was.
C18_RejectedConnectLeavesUserAbsent ==
    [][\A t \in UserTasks :
          RejectedConnectSteps(t) =>
              /\ userAddress' = undefined
              /\ errorMessage' = errorMessage
              /\ UNCHANGED <<contractAddresses, contractAddress, storage, balance, userAliases,
                             proposals, userVotes, contract, localStorage>>]_vars

\* C18, amended: when the connector rejects the permission request, connectWallet sets no
\* message and leaves the contract data, the handle and the persisted address as they
\* were, but still reads the wallet: userAddress becomes the account the wallet holds,
\* which is absent unless the wallet held one already, and only then are the user votes
\* of that account fetched and set.
C18_RejectedConnectReadsWallet ==
    [][\A t \in UserTasks :
          RejectedConnectSteps(t) =>
              /\ UNCHANGED <<messages, contractAddresses, contractAddress, storage, balance,
                             userAliases, proposals, contract, localStorage, walletAccount>>
              /\ tasks[t].pc = "requestPermissions" => UNCHANGED <<userAddress, userVotes>>
              /\ tasks[t].pc = "getUserAddress" =>
                    /\ userAddress' = walletAccount
                    /\ userVotes' = userVotes
                    /\ walletAccount = undefined => tasks'[t].pc = "done"
              /\ tasks[t].pc = "getVotes" =>
                    /\ userAddress' = userAddress
                    /\ tasks[t].u # undefined
                    /\ userVotes' = getUserVotes(tasks[t].u, [addr |-> tasks[t].b], t)]_vars

\* A connectWallet whose permission request was rejected has settled with the account the
\* wallet held from before as the user, and no error message.
C18_Witness ==
    /\ userAddress = WalletUser
    /\ errorMessage = NoMessage
    /\ \E t \in UserTasks :
          /\ tasks[t].op = "connectWallet" /\ tasks[t].granted = "rejected"
          /\ tasks[t].pc = "done"

\* The messages that are set.
MessagesSet == {i \in 1..3 : messages[i] # NoMessage}

\* C19, as claimed: at most one transient message is present at a time: the information,
\* confirmation and error messages are never set together.
C19_AtMostOneMessage == Cardinality(MessagesSet) <= 1

\* C19, amended: the three messages are independent fields: a step that sets, replaces
\* or removes the message of one kind leaves the messages of the other kinds as they
\* were, so a new message overwrites only the previous message of its own kind.
C19_MessagesAreIndependent ==
    [][/\ informationMessage' # informationMessage => UNCHANGED <<confirmationMessage, errorMessage>>
       /\ confirmationMessage' # confirmationMessage => UNCHANGED <<informationMessage, errorMessage>>
       /\ errorMessage' # errorMessage => UNCHANGED <<informationMessage, confirmationMessage>>]_vars

\* An error message was set while another handler awaits the step its information
\* message announces: both messages are present.
C19_Witness ==
    /\ informationMessage # NoMessage
    /\ errorMessage # NoMessage
    /\ \E t1, t2 \in UserTasks :
          /\ tasks[t1].result = "invalid"
          /\ tasks[t2].pc \in {"confirm", "upload"}

\* Handler t awaits a step it announced with an information message: the confirmation
\* of an operation it sent, or an upload it was told to display.
AwaitsAnnouncedStep(t) ==
    \/ tasks[t].pc = "confirm"
    \/ tasks[t].pc = "upload" /\ tasks[t].display

\* C20: an information message is not cleared while the step it announces is still
\* awaited, also when two handlers overlap: as long as a handler awaits a step it
\* announced, an information message is present.
C20_MessageStaysWhileAwaited ==
    \A t \in UserTasks : AwaitsAnnouncedStep(t) => informationMessage # NoMessage

\* C21: an error message, once set, stays until the user dismisses it or another error
\* message overwrites it: the only step that removes it is the dismissal, which is no
\* step of a handler.
C21_ErrorStaysUntilDismissed ==
    [][errorMessage # NoMessage /\ errorMessage' = NoMessage
          => DismissMessage /\ tasks' = tasks]_vars

\* An error message set by a rejected handler is still present after a handler started
\* later has sent its operation, had it confirmed and refreshed.
C21_Witness ==
    /\ errorMessage # NoMessage
    /\ \E t1, t2 \in UserTasks :
          /\ t1 < t2
          /\ tasks[t1].result = "invalid"
          /\ tasks[t2].op \in ContractOps
          /\ tasks[t2].sent = "confirmed" /\ tasks[t2].result = "ok"

\* C22: in an originate with valid parameters the metadata upload settles before the
\* origination is sent, the storage it is sent with has counter 0 and empty proposals
\* and votes maps (with the users, minimum votes and expiration time given), and the
\* address of the new contract is extracted and reported only when the confirmation
\* wait, which follows the send, has resolved.
C22_OriginateOrder ==
    [][\A t \in UserTasks :
          Steps(t, "originate") =>
              /\ tasks'[t].pc = "send" =>
                    /\ tasks[t].pc = "upload"
                    /\ tasks'[t].origination.counter = 0
                    /\ tasks'[t].origination.proposals = <<>>
                    /\ tasks'[t].origination.votes = <<>>
                    /\ tasks'[t].origination.users = tasks[t].origination.users
                    /\ tasks'[t].origination.minimum_votes = tasks[t].origination.minimumVotes
                    /\ tasks'[t].origination.expiration_time = tasks[t].origination.expirationTime
              /\ tasks'[t].pc = "confirm" => tasks[t].pc = "send" /\ tasks'[t].sent = "sent"
              /\ tasks'[t].a # undefined =>
                    tasks[t].pc = "confirm" /\ tasks'[t].sent = "confirmed" /\ tasks'[t].a = NewContract
              /\ tasks'[t].sent = "confirmed" => tasks'[t].a = NewContract]_vars

\* An origination was confirmed and the address of the new contract reported.
C22_Witness ==
    \E t \in UserTasks :
        /\ tasks[t].op = "originate" /\ tasks[t].sent = "confirmed" /\ tasks[t].pc = "done"
        /\ tasks[t].a = NewContract
        /\ tasks[t].calls = 3

\* The awaits of a refresh.
RefreshPcs == {"getStorage", "getBalance", "getAliases", "getProposals", "getVotes"}
\* The send of the operation has settled and, if it gave an operation, the confirmation
\* wait has returned.
WaitReturned(task) == task.sent \in {"sendFailed", "confirmed", "confirmFailed"}

\* C23: within a createProposal, voteProposal or executeProposal the send comes before
\* the confirmation wait and the wait before the refresh: the wait begins when the send
\* has resolved, the first fetch of the refresh is called when the wait has returned,
\* and the handler fetches and publishes contract data only after that.
C23_SendConfirmRefreshOrder ==
    [][\A t \in UserTasks :
          tasks'[t].op \in ContractOps /\ tasks'[t] # tasks[t] =>
              /\ tasks'[t].pc = "send" => tasks[t].pc \in {"idle", "getContract"} /\ tasks'[t].sent = "none"
              /\ tasks'[t].pc = "confirm" => tasks[t].pc = "send" /\ tasks'[t].sent = "sent"
              /\ tasks'[t].pc \in RefreshPcs =>
                    /\ WaitReturned(tasks'[t])
                    /\ tasks[t].pc \in RefreshPcs \cup {"confirm", "send"}
                    /\ tasks[t].pc = "send" => tasks'[t].sent = "sendFailed"
              /\ <<storage, balance, userAliases, proposals, userVotes>>'
                     # <<storage, balance, userAliases, proposals, userVotes>>
                    => tasks[t].pc \in RefreshPcs /\ WaitReturned(tasks[t])]_vars

\* A handler whose operation was sent and confirmed is fetching its refresh; the
\* information message of the wait is gone.
C23_Witness ==
    \E t \in UserTasks :
        /\ tasks[t].op \in ContractOps
        /\ tasks[t].pc \in RefreshPcs
        /\ tasks[t].sent = "confirmed"
        /\ informationMessage = NoMessage

C25_HandleOfSelectedContract ==
    /\ contract # undefined => contract = contractAddress
    /\ \A t \in UserTasks :
          tasks[t].op \in ContractOps /\ tasks[t].pc = "send" /\ contract # undefined
              => tasks[t].h = contract

\* C26: whenever userAddress is absent userVotes is absent too, and user votes that are
\* present are those of the current userAddress, across the interleavings of
\* connectWallet, disconnectWallet, voteProposal and setContractAddress.
C26_VotesOfCurrentUser ==
    /\ userAddress = undefined => userVotes = NoData
    /\ userVotes # NoData => userVotes.user = userAddress

\* C27: when a proposal-creation handler that passed its validation and got the contract
\* handle has completed towards its caller, the send, the confirmation wait and the
\* proposals refresh of the proposal have completed.
C27_ProposalDoneWhenReturned ==
    \A t \in UserTasks :
        tasks[t].op \in CreateOps /\ tasks[t].returned => tasks[t].pc = "done"

====
